---- MODULE Spec2Model ----
(***************************************************************************)
(* A model of textual's theming and rendering core:                        *)
(*   - textual.visual.Style: composition (__add__, memoised by lru_cache), *)
(*     without_color, combine, and the textualize discovery function;      *)
(*   - textual.design.ColorSystem: shades, generate, show_design;          *)
(*   - the DOM child lookup exercised by tests/test_dom.py.                *)
(*                                                                         *)
(* Python's None is the string "None"; the three-state attributes are the  *)
(* strings "None", "True", "False".  A Color is a record r, g, b (0..255), *)
(* a (alpha in percent) and ansi ("None" or a palette token).  Factors and *)
(* luminosity deltas are in thousandths.                                   *)
(***************************************************************************)
EXTENDS Integers, Sequences, FiniteSets, TLC

VARIABLES
    pool,       \* the Styles a session works with
    cache,      \* the lru_cache of Style.__add__, least recently used first
    op,         \* the last Style operation: its name, arguments and outcome
    nops,       \* number of Style operations performed
    recency,    \* history: every operand pair ever added, least recently used first
    system,     \* the ColorSystem under consideration
    colors,     \* what the last generate() returned
    previous,   \* what the generate() call before the last returned
    shown,      \* what show_design rendered
    obj,        \* the object handed to textualize
    outcome,    \* what textualize did with it
    admitted,   \* the visuals discovered so far
    children,   \* DOM: each node's children, in order
    classes,    \* DOM: each node's classes
    query       \* DOM: the last get_child call and its outcome

vars == <<pool, cache, op, nops, recency, system, colors, previous, shown,
          obj, outcome, admitted, children, classes, query>>

styleVars == <<pool, cache, op, nops, recency>>
designVars == <<system, colors, previous, shown>>
visualVars == <<obj, outcome, admitted>>
domVars == <<children, classes, query>>

None == "None"

Min(a, b) == IF a < b THEN a ELSE b

(***************************************************************************)
(* Bounds of the model.                                                    *)
(***************************************************************************)
\* Style operations performed in one session of the Style specification.
MaxOps == 1
\* Longest sequence handed to Style.combine.
MaxLen == 3
\* Entries the model's composition cache holds (stands for maxsize).
MaxCache == 2
\* Optional seed colors a ColorSystem is constructed with.
MaxGiven == 2
\* Classes added to the nodes of a DOM tree.
MaxClasses == 2

(***************************************************************************)
(* textual.color.Color                                                     *)
(***************************************************************************)
Color(r, g, b, a) == [r |-> r, g |-> g, b |-> b, a |-> a, ansi |-> None]

AnsiColor(r, g, b, token) == [r |-> r, g |-> g, b |-> b, a |-> 100, ansi |-> token]

TRANSPARENT == Color(0, 0, 0, 0)

WHITE == Color(255, 255, 255, 100)

BLACK == Color(0, 0, 0, 100)

is_transparent(c) == c.a = 0

\* int(): truncation toward zero of n / d, d > 0.
TruncDiv(n, d) == IF n >= 0 THEN n \div d ELSE -((-n) \div d)

\* Color.__add__: other painted over self ("over" alpha compositing).
ColorAdd(self, other) ==
    IF is_transparent(other) THEN self
    ELSE IF other.ansi # None \/ other.a = 100 THEN other
    ELSE IF self.ansi # None THEN self
    ELSE LET out_a == other.a + (self.a * (100 - other.a)) \div 100
             ch(x, y) == (y * other.a * 100 + x * self.a * (100 - other.a))
                             \div (out_a * 100)
         IN  [r |-> ch(self.r, other.r), g |-> ch(self.g, other.g),
              b |-> ch(self.b, other.b), a |-> out_a, ansi |-> None]

(***************************************************************************)
(* textual.visual.Style                                                    *)
(***************************************************************************)
Style(background, foreground, bold, dim, italic, underline, strike, link, meta) ==
    [type |-> "Style", background |-> background, foreground |-> foreground,
     bold |-> bold, dim |-> dim, italic |-> italic, underline |-> underline,
     strike |-> strike, link |-> link, meta |-> meta]

\* Style(): every field at its default.
DefaultStyle ==
    Style(TRANSPARENT, TRANSPARENT, None, None, None, None, None, None, None)

NotImplemented == [type |-> "NotImplemented"]

StopIteration == [type |-> "StopIteration"]

\* A variant of Style.__add__ in which the left operand's bold wins.
MutAddBoldFirstWins(self, other) ==
    IF other.type # "Style" THEN NotImplemented
    ELSE Style(
        ColorAdd(self.background, other.background),
        IF is_transparent(other.foreground) THEN self.foreground ELSE other.foreground,
        IF self.bold = None THEN other.bold ELSE self.bold,
        IF other.dim = None THEN self.dim ELSE other.dim,
        IF other.italic = None THEN self.italic ELSE other.italic,
        IF other.underline = None THEN self.underline ELSE other.underline,
        IF other.strike = None THEN self.strike ELSE other.strike,
        IF other.link = None THEN self.link ELSE other.link,
        IF other.meta = None THEN self.meta ELSE other.meta)

\* The body of Style.__add__ (what a cache miss computes).
StyleAdd(self, other) ==
    IF other.type # "Style" THEN NotImplemented
    ELSE Style(
        ColorAdd(self.background, other.background),
        IF is_transparent(other.foreground) THEN self.foreground ELSE other.foreground,
        IF other.bold = None THEN self.bold ELSE other.bold,
        IF other.dim = None THEN self.dim ELSE other.dim,
        IF other.italic = None THEN self.italic ELSE other.italic,
        IF other.underline = None THEN self.underline ELSE other.underline,
        IF other.strike = None THEN self.strike ELSE other.strike,
        IF other.link = None THEN self.link ELSE other.link,
        IF other.meta = None THEN self.meta ELSE other.meta)

\* maxsize of @lru_cache(maxsize=1024).
maxsize == 1024

\* The capacity the model's cache runs with.
Capacity == Min(maxsize, MaxCache)

CacheIndex(c, key) == {i \in 1..Len(c) : c[i].key = key}

RemoveAt(s, i) == SubSeq(s, 1, i - 1) \o SubSeq(s, i + 1, Len(s))

\* A variant of the miss path that makes room by dropping the newest entry.
MutStoreEvictsNewest(c, key, value) ==
    Append(IF Len(c) >= Capacity THEN SubSeq(c, 1, Len(c) - 1) ELSE c,
           [key |-> key, value |-> value])

\* lru_cache's miss path: the result is stored, the oldest entry making room.
CacheStore(c, key, value) ==
    Append(IF Len(c) >= Capacity THEN Tail(c) ELSE c,
           [key |-> key, value |-> value])

\* self + other through @lru_cache: the cache as left behind, the value
\* returned and whether it was a hit.
CachedAdd(c, self, other) ==
    LET key == <<self, other>>
        at == CacheIndex(c, key)
    IN  IF at # {}
        THEN LET i == CHOOSE i \in at : TRUE
             IN  [cache |-> Append(RemoveAt(c, i), c[i]), value |-> c[i].value,
                  hit |-> TRUE]
        ELSE LET value == StyleAdd(self, other)
             IN  [cache |-> CacheStore(c, key, value), value |-> value, hit |-> FALSE]

\* Style.without_color
WithoutColorOf(self) ==
    Style(TRANSPARENT, TRANSPARENT, self.bold, self.dim, self.italic, None,
          self.strike, self.link, self.meta)

\* A variant of the sum that adds the accumulated style onto each next one.
RECURSIVE MutSumRight(_, _, _)
MutSumRight(c, acc, rest) ==
    IF rest = <<>> THEN [cache |-> c, value |-> acc]
    ELSE LET r == CachedAdd(c, Head(rest), acc)
         IN  MutSumRight(r.cache, r.value, Tail(rest))

\* sum(iter_styles, start): start + s1 + s2 + ..., each + through the cache.
RECURSIVE SumStyles(_, _, _)
SumStyles(c, acc, rest) ==
    IF rest = <<>> THEN [cache |-> c, value |-> acc]
    ELSE LET r == CachedAdd(c, acc, Head(rest))
         IN  SumStyles(r.cache, r.value, Tail(rest))

\* Style.combine
CombineOf(c, styles) ==
    IF styles = <<>> THEN [cache |-> c, value |-> StopIteration]
    ELSE SumStyles(c, Head(styles), Tail(styles))

(***************************************************************************)
(* The Styles the Style specifications draw their operands from.           *)
(***************************************************************************)
RED == Color(255, 0, 0, 100)

BLUE50 == Color(0, 0, 255, 50)

GREEN20 == Color(0, 200, 0, 20)

\* Fully transparent, but not the TRANSPARENT constant.
GHOST == Color(10, 20, 30, 0)

Tri == {"True", "False"}

\* Styles that differ from Style() in one field, and three that set several.
Styles ==
    {DefaultStyle}
    \cup {[DefaultStyle EXCEPT !.background = c] : c \in {RED, BLUE50}}
    \cup {[DefaultStyle EXCEPT !.foreground = c] : c \in {RED, BLUE50, GHOST}}
    \cup {[DefaultStyle EXCEPT !.bold = v] : v \in Tri}
    \cup {[DefaultStyle EXCEPT !.dim = v] : v \in Tri}
    \cup {[DefaultStyle EXCEPT !.italic = v] : v \in Tri}
    \cup {[DefaultStyle EXCEPT !.underline = v] : v \in Tri}
    \cup {[DefaultStyle EXCEPT !.strike = v] : v \in Tri}
    \cup {[DefaultStyle EXCEPT !.link = v] : v \in {"https://a", "https://b"}}
    \cup {[DefaultStyle EXCEPT !.meta = v] : v \in {"meta1", "meta2"}}
    \cup {Style(RED, BLUE50, "True", "False", "True", "False", "True", "https://a", "meta1"),
          Style(GREEN20, RED, "False", "True", "False", "True", "False", "https://b", "meta2"),
          Style(BLUE50, GHOST, "True", None, "False", "True", None, None, "meta2")}

\* An operand that is no Style.
NotAStyle == [type |-> "int"]

\* The two Styles of the cache specification.
CacheStyles ==
    {Style(RED, BLUE50, "True", "False", "True", "False", "True", "https://a", "meta1"),
     [DefaultStyle EXCEPT !.background = BLUE50]}

SeqsUpTo(S, n) == UNION {[1..k -> S] : k \in 0..n}

NoOp == [name |-> "none"]

(***************************************************************************)
(* Style operations                                                        *)
(***************************************************************************)
\* self + other
Add(self, other) ==
    LET r == CachedAdd(cache, self, other)
    IN  /\ cache' = r.cache
        /\ op' = [name |-> "add", args |-> <<self, other>>, result |-> r.value,
                  hit |-> r.hit]
        /\ UNCHANGED pool

\* self.without_color
WithoutColor(self) ==
    /\ op' = [name |-> "without_color", args |-> <<self>>,
              result |-> WithoutColorOf(self)]
    /\ UNCHANGED <<pool, cache>>

\* Style.combine(styles)
Combine(styles) ==
    LET r == CombineOf(cache, styles)
    IN  /\ cache' = r.cache
        /\ op' = [name |-> "combine", args |-> styles, result |-> r.value]
        /\ UNCHANGED pool

\* The history of operand pairs, the pair just used moved to the end.
Touch(rec, key) ==
    LET at == {i \in 1..Len(rec) : rec[i] = key}
    IN  IF at = {} THEN Append(rec, key)
        ELSE Append(RemoveAt(rec, CHOOSE i \in at : TRUE), key)

IdleDesign ==
    /\ system = None
    /\ colors = <<>>
    /\ previous = <<>>
    /\ shown = <<>>

IdleVisual ==
    /\ obj = [attr |-> "none"]
    /\ outcome = [kind |-> "none"]
    /\ admitted = {}

IdleDom ==
    /\ children = <<>>
    /\ classes = <<>>
    /\ query = [node |-> "none"]

IdleStyle ==
    /\ pool = {}
    /\ cache = <<>>
    /\ op = NoOp
    /\ nops = 0
    /\ recency = <<>>

(***************************************************************************)
(* SpecStyle: a session composes the Styles of its pool.                   *)
(***************************************************************************)
InitStyle ==
    /\ pool \in {{a, b} : a \in Styles, b \in Styles}
    /\ cache = <<>>
    /\ op = NoOp
    /\ nops = 0
    /\ recency = <<>>
    /\ IdleDesign /\ IdleVisual /\ IdleDom

StyleAddStep ==
    /\ nops < MaxOps
    /\ \E a \in pool, b \in pool \cup {NotAStyle} : Add(a, b)
    /\ nops' = nops + 1
    /\ UNCHANGED <<recency, designVars, visualVars, domVars>>

StyleWithoutColorStep ==
    /\ nops < MaxOps
    /\ \E s \in pool : WithoutColor(s)
    /\ nops' = nops + 1
    /\ UNCHANGED <<recency, designVars, visualVars, domVars>>

StyleCombineStep ==
    /\ nops < MaxOps
    /\ \E styles \in SeqsUpTo(pool, MaxLen) : Combine(styles)
    /\ nops' = nops + 1
    /\ UNCHANGED <<recency, designVars, visualVars, domVars>>

NextStyle == StyleAddStep \/ StyleWithoutColorStep \/ StyleCombineStep

SpecStyle == InitStyle /\ [][NextStyle]_vars

(***************************************************************************)
(* SpecCache: additions over two Styles, with the history of the pairs.    *)
(***************************************************************************)
InitCache ==
    /\ pool = CacheStyles
    /\ cache = <<>>
    /\ op = NoOp
    /\ nops = 0
    /\ recency = <<>>
    /\ IdleDesign /\ IdleVisual /\ IdleDom

CacheAddStep ==
    /\ \E a \in pool, b \in pool :
          /\ Add(a, b)
          /\ recency' = Touch(recency, <<a, b>>)
    /\ UNCHANGED <<nops, designVars, visualVars, domVars>>

NextCache == CacheAddStep

SpecCache == InitCache /\ [][NextCache]_vars

(***************************************************************************)
(* Claims about Style                                                      *)
(***************************************************************************)
IsAdd == op.name = "add" /\ op.args[2].type = "Style"

\* C1: A + B has background = A.background + B.background, foreground =
\* A.foreground if B.foreground is fully transparent and B.foreground
\* otherwise, and each of bold, dim, italic, underline, strike, link and
\* metadata = B's value if B sets it, A's value otherwise.
C1_AddPaintsOver ==
    IsAdd =>
        LET A == op.args[1]
            B == op.args[2]
            R == op.result
            Later(x, y) == IF y # None THEN y ELSE x
        IN  /\ R.type = "Style"
            /\ R.background = ColorAdd(A.background, B.background)
            /\ R.foreground = (IF B.foreground.a = 0 THEN A.foreground ELSE B.foreground)
            /\ R.bold = Later(A.bold, B.bold)
            /\ R.dim = Later(A.dim, B.dim)
            /\ R.italic = Later(A.italic, B.italic)
            /\ R.underline = Later(A.underline, B.underline)
            /\ R.strike = Later(A.strike, B.strike)
            /\ R.link = Later(A.link, B.link)
            /\ R.meta = Later(A.meta, B.meta)

\* An addition in which both operands set bold differently and both have a
\* visible background, and the right operand has no foreground of its own.
C1_Witness ==
    /\ IsAdd
    /\ op.args[1].bold # None /\ op.args[2].bold # None
    /\ op.args[1].bold # op.args[2].bold
    /\ op.args[1].background.a > 0 /\ op.args[2].background.a > 0
    /\ op.args[2].background.a < 100
    /\ op.args[1].foreground.a > 0 /\ op.args[2].foreground.a = 0

\* C2: S.without_color keeps bold, dim, italic, underline, strike, link and
\* metadata of S and has a fully transparent background and foreground.
C2_WithoutColorKeepsAttributes ==
    op.name = "without_color" =>
        LET S == op.args[1]
            R == op.result
        IN  /\ R.bold = S.bold
            /\ R.dim = S.dim
            /\ R.italic = S.italic
            /\ R.underline = S.underline
            /\ R.strike = S.strike
            /\ R.link = S.link
            /\ R.meta = S.meta
            /\ R.background.a = 0
            /\ R.foreground.a = 0

\* The left-to-right fold of a non-empty sequence, without the cache.
RECURSIVE LeftFold(_)
LeftFold(s) ==
    IF Len(s) = 1 THEN s[1]
    ELSE StyleAdd(LeftFold(SubSeq(s, 1, Len(s) - 1)), s[Len(s)])

\* The value f gives the last element of s that has one, unset if none has.
LastSet(s, f(_)) ==
    LET at == {i \in 1..Len(s) : f(s[i]) # None}
    IN  IF at = {} THEN None ELSE f(s[CHOOSE i \in at : \A j \in at : j <= i])

Reverse(s) == [i \in 1..Len(s) |-> s[Len(s) + 1 - i]]

\* C10: combine of s1..sn is ((s1 + s2) + ...) + sn, s1 itself for n = 1:
\* each attribute, the link and the metadata are those of the last style
\* that sets them, the foreground that of the last style with a foreground
\* that is not fully transparent (fully transparent if there is none).
C10_CombineFoldsLeft ==
    (op.name = "combine" /\ op.args # <<>>) =>
        LET s == op.args
            R == op.result
            Bold(x) == x.bold
            Dim(x) == x.dim
            Italic(x) == x.italic
            Underline(x) == x.underline
            Strike(x) == x.strike
            Link(x) == x.link
            Meta(x) == x.meta
            visible == {i \in 1..Len(s) : s[i].foreground.a # 0}
        IN  /\ R = LeftFold(s)
            /\ Len(s) = 1 => R = s[1]
            /\ R.bold = LastSet(s, Bold)
            /\ R.dim = LastSet(s, Dim)
            /\ R.italic = LastSet(s, Italic)
            /\ R.underline = LastSet(s, Underline)
            /\ R.strike = LastSet(s, Strike)
            /\ R.link = LastSet(s, Link)
            /\ R.meta = LastSet(s, Meta)
            /\ IF visible = {} THEN R.foreground.a = 0
               ELSE R.foreground = s[CHOOSE i \in visible : \A j \in visible : j <= i].foreground

\* A combine of three styles whose result changes when they are reordered.
C10_Witness ==
    /\ op.name = "combine"
    /\ Len(op.args) = 3
    /\ op.args[1] # op.args[3]
    /\ LeftFold(Reverse(op.args)) # op.result
    /\ op.result.bold # op.args[1].bold

CacheKeys(c) == [i \in 1..Len(c) |-> c[i].key]

\* C7: the cache never holds more than its capacity (at most maxsize)
\* entries, one per operand pair; it holds exactly the most recently used
\* pairs, so that a miss on a full cache evicts the least recently used one;
\* every cached value, and so every value returned on a hit, is the
\* composition of its pair.
C7_CacheBoundedLru ==
    /\ Len(cache) <= Capacity
    /\ Capacity <= maxsize
    /\ \A i, j \in 1..Len(cache) : cache[i].key = cache[j].key => i = j
    /\ Len(cache) = Min(Capacity, Len(recency))
    /\ CacheKeys(cache) = SubSeq(recency, Len(recency) - Len(cache) + 1, Len(recency))
    /\ \A i \in 1..Len(cache) : cache[i].value = StyleAdd(cache[i].key[1], cache[i].key[2])
    /\ (op.name = "add" /\ op.hit) => op.result = StyleAdd(op.args[1], op.args[2])

\* A hit after the cache was full and a pair had been evicted.
C7_Witness ==
    /\ op.name = "add"
    /\ op.hit
    /\ Len(cache) = Capacity
    /\ Len(recency) > Capacity

(***************************************************************************)
(* textual.color.Color: the operations ColorSystem uses                    *)
(***************************************************************************)
Nothing == [type |-> "NoneType"]

\* x or y, for an optional Color x (a Color is never falsy).
Or(x, y) == IF x = Nothing THEN y ELSE x

Clamp(x, lo, hi) == IF x < lo THEN lo ELSE IF x > hi THEN hi ELSE x

\* Color.clamped
clamped(c) ==
    [c EXCEPT !.r = Clamp(c.r, 0, 255), !.g = Clamp(c.g, 0, 255),
              !.b = Clamp(c.b, 0, 255), !.a = Clamp(c.a, 0, 100)]

\* Color.with_alpha
with_alpha(c, alpha) == [c EXCEPT !.a = alpha]

\* Color.blend(destination, factor, alpha): linear interpolation, the factor
\* in thousandths; a fixed-palette color is not blended.
blend(c, destination, factor, alpha) ==
    IF destination.ansi # None THEN destination
    ELSE IF c.ansi # None THEN c
    ELSE LET ch(x, y) == TruncDiv(x * 1000 + (y - x) * factor, 1000)
         IN  [r |-> ch(c.r, destination.r), g |-> ch(c.g, destination.g),
              b |-> ch(c.b, destination.b), a |-> alpha, ansi |-> None]

\* Color.lighten(amount): the luminosity moved by amount (thousandths of
\* the full range) and kept in range; a fixed-palette color is unchanged.
lighten(c, amount) ==
    IF c.ansi # None THEN c
    ELSE LET ch(x) == Clamp(x + TruncDiv(amount * 255, 1000), 0, 255)
         IN  [c EXCEPT !.r = ch(c.r), !.g = ch(c.g), !.b = ch(c.b)]

\* Color.inverse
inverse(c) == [c EXCEPT !.r = 255 - c.r, !.g = 255 - c.g, !.b = 255 - c.b]

\* Color.brightness, in thousandths of 255.
brightness(c) == 299 * c.r + 587 * c.g + 114 * c.b

\* Color.get_contrast_text(alpha): white on a dark color, black on a light one.
get_contrast_text(c, alpha) ==
    with_alpha(IF 2 * brightness(c) < 255 * 1000 THEN WHITE ELSE BLACK, alpha)

HexDigits == <<"0", "1", "2", "3", "4", "5", "6", "7",
               "8", "9", "A", "B", "C", "D", "E", "F">>

Hex2(n) == HexDigits[(n \div 16) + 1] \o HexDigits[(n % 16) + 1]

\* Color.hex: #RRGGBB, and #RRGGBBAA when not opaque.
hex(c) ==
    LET k == clamped(c)
    IN  "#" \o Hex2(k.r) \o Hex2(k.g) \o Hex2(k.b)
            \o (IF k.a = 100 THEN "" ELSE Hex2((k.a * 255) \div 100))

\* Color.parse, on the color specifications the model uses.
ColorSpecs ==
    [spec \in {"#004578", "#ffa62b", "#ba3c5b", "#4ebf71", "#0178d4", "#e0e0e0",
               "#121212", "#24292f", "#ffffff14", "#1e1e1e", "#272727",
               "#f5f5f5", "#efefef", "ansi_red", "ansi_blue", "ansi_default"} |->
        CASE spec = "#004578" -> Color(0, 69, 120, 100)
          [] spec = "#ffa62b" -> Color(255, 166, 43, 100)
          [] spec = "#ba3c5b" -> Color(186, 60, 91, 100)
          [] spec = "#4ebf71" -> Color(78, 191, 113, 100)
          [] spec = "#0178d4" -> Color(1, 120, 212, 100)
          [] spec = "#e0e0e0" -> Color(224, 224, 224, 100)
          [] spec = "#121212" -> Color(18, 18, 18, 100)
          [] spec = "#24292f" -> Color(36, 41, 47, 100)
          [] spec = "#ffffff14" -> Color(255, 255, 255, 8)
          [] spec = "#1e1e1e" -> Color(30, 30, 30, 100)
          [] spec = "#272727" -> Color(39, 39, 39, 100)
          [] spec = "#f5f5f5" -> Color(245, 245, 245, 100)
          [] spec = "#efefef" -> Color(239, 239, 239, 100)
          [] spec = "ansi_red" -> AnsiColor(128, 0, 0, "ansi_red")
          [] spec = "ansi_blue" -> AnsiColor(0, 0, 128, "ansi_blue")
          [] spec = "ansi_default" -> AnsiColor(0, 0, 0, "ansi_default")]

parse(spec) == ColorSpecs[spec]

(***************************************************************************)
(* textual.design                                                          *)
(***************************************************************************)
NUMBER_OF_SHADES == 3

DEFAULT_DARK_BACKGROUND == "#1e1e1e"

DEFAULT_DARK_SURFACE == "#272727"

DEFAULT_LIGHT_SURFACE == "#f5f5f5"

DEFAULT_LIGHT_BACKGROUND == "#efefef"

COLOR_NAMES ==
    <<"primary", "secondary", "background", "primary-background",
      "secondary-background", "surface", "panel", "boost", "warning", "error",
      "success", "accent">>

\* The parse helper of ColorSystem.__init__.
parse_optional(color) == IF color = None THEN Nothing ELSE parse(color)

\* ColorSystem.__init__
ColorSystem(primary, secondary, warning, error, success, accent, foreground, background, surface, panel, boost, dark, luminosity_spread) ==
    [primary |-> parse(primary),
     secondary |-> parse_optional(secondary),
     warning |-> parse_optional(warning),
     error |-> parse_optional(error),
     success |-> parse_optional(success),
     accent |-> parse_optional(accent),
     foreground |-> parse_optional(foreground),
     background |-> parse_optional(background),
     surface |-> parse_optional(surface),
     panel |-> parse_optional(panel),
     boost |-> parse_optional(boost),
     dark |-> dark,
     luminosity_spread |-> luminosity_spread]

\* str(n) for the shade numbers.
Str(n) == <<"1", "2", "3", "4", "5", "6", "7", "8", "9">>[n]

Abs(n) == IF n < 0 THEN -n ELSE n

ShadeNumbers == [i \in 1..(2 * NUMBER_OF_SHADES + 1) |-> i - NUMBER_OF_SHADES - 1]

\* One name of ColorSystem.shades.
ShadeName(color, shade_number) ==
    IF shade_number < 0 THEN color \o "-darken-" \o Str(Abs(shade_number))
    ELSE IF shade_number > 0 THEN color \o "-lighten-" \o Str(shade_number)
    ELSE color

\* ColorSystem.shades: the names, in the order they are yielded.
shades ==
    [i \in 1..(Len(COLOR_NAMES) * Len(ShadeNumbers)) |->
        ShadeName(COLOR_NAMES[((i - 1) \div Len(ShadeNumbers)) + 1],
                  ShadeNumbers[((i - 1) % Len(ShadeNumbers)) + 1])]

\* A variant of the fallbacks in which error falls back to primary.
MutResolveErrorFromPrimary(self) ==
    LET primary == self.primary
        secondary == Or(self.secondary, primary)
        background ==
            IF self.dark THEN Or(self.background, parse(DEFAULT_DARK_BACKGROUND))
            ELSE Or(self.background, parse(DEFAULT_LIGHT_BACKGROUND))
        surface ==
            IF self.dark THEN Or(self.surface, parse(DEFAULT_DARK_SURFACE))
            ELSE Or(self.surface, parse(DEFAULT_LIGHT_SURFACE))
        boost == Or(self.boost, with_alpha(get_contrast_text(background, 100), 4))
        blended == blend(surface, primary, 100, 100)
    IN  [primary |-> primary,
         secondary |-> secondary,
         warning |-> Or(self.warning, primary),
         error |-> Or(self.error, primary),
         success |-> Or(self.success, secondary),
         accent |-> Or(self.accent, primary),
         background |-> background,
         surface |-> surface,
         foreground |-> Or(self.foreground, inverse(background)),
         boost |-> boost,
         panel |-> IF self.panel = Nothing
                   THEN (IF self.dark THEN ColorAdd(blended, boost) ELSE blended)
                   ELSE self.panel]

\* generate(): the seed colors after the fallbacks.
Resolve(self) ==
    LET primary == self.primary
        secondary == Or(self.secondary, primary)
        background ==
            IF self.dark THEN Or(self.background, parse(DEFAULT_DARK_BACKGROUND))
            ELSE Or(self.background, parse(DEFAULT_LIGHT_BACKGROUND))
        surface ==
            IF self.dark THEN Or(self.surface, parse(DEFAULT_DARK_SURFACE))
            ELSE Or(self.surface, parse(DEFAULT_LIGHT_SURFACE))
        boost == Or(self.boost, with_alpha(get_contrast_text(background, 100), 4))
        blended == blend(surface, primary, 100, 100)
    IN  [primary |-> primary,
         secondary |-> secondary,
         warning |-> Or(self.warning, primary),
         error |-> Or(self.error, secondary),
         success |-> Or(self.success, secondary),
         accent |-> Or(self.accent, primary),
         background |-> background,
         surface |-> surface,
         foreground |-> Or(self.foreground, inverse(background)),
         boost |-> boost,
         panel |-> IF self.panel = Nothing
                   THEN (IF self.dark THEN ColorAdd(blended, boost) ELSE blended)
                   ELSE self.panel]

\* A variant of luminosity_range that labels darker shades as lighter ones.
MutRangeUnsignedLabel(spread) ==
    [i \in 1..Len(ShadeNumbers) |->
        LET n == ShadeNumbers[i]
            label == IF n # 0 THEN "-lighten" ELSE ""
        IN  <<label \o (IF n # 0 THEN "-" \o Str(Abs(n)) ELSE ""),
              TruncDiv(n * spread, 2)>>]

\* luminosity_range(spread): the (suffix, luminosity delta) pairs.
luminosity_range(spread) ==
    [i \in 1..Len(ShadeNumbers) |->
        LET n == ShadeNumbers[i]
            label == IF n < 0 THEN "-darken" ELSE IF n > 0 THEN "-lighten" ELSE ""
        IN  <<label \o (IF n # 0 THEN "-" \o Str(Abs(n)) ELSE ""),
              TruncDiv(n * spread, 2)>>]

\* generate(): COLORS, the names and their base colors.
COLORS(c) ==
    <<<<"primary", c.primary>>,
      <<"secondary", c.secondary>>,
      <<"primary-background", c.primary>>,
      <<"secondary-background", c.secondary>>,
      <<"background", c.background>>,
      <<"foreground", c.foreground>>,
      <<"panel", c.panel>>,
      <<"boost", c.boost>>,
      <<"surface", c.surface>>,
      <<"warning", c.warning>>,
      <<"error", c.error>>,
      <<"success", c.success>>,
      <<"accent", c.accent>>>>

DARK_SHADES == {"primary-background", "secondary-background"}

\* A variant of the inner loop that uses the dark shading in light mode too.
MutShadeIgnoresMode(name, color, luminosity_delta, dark, background, spread) ==
    LET is_dark_shade == name \in DARK_SHADES
    IN  IF color.ansi # None THEN hex(color)
        ELSE IF is_dark_shade
        THEN hex(clamped(blend(blend(background, color, 150, 100), WHITE,
                               spread + luminosity_delta, 100)))
        ELSE hex(lighten(color, luminosity_delta))

\* generate(): one shade of one named color (the body of the inner loop).
Shade(name, color, luminosity_delta, dark, background, spread) ==
    LET is_dark_shade == dark /\ name \in DARK_SHADES
    IN  IF color.ansi # None THEN hex(color)
        ELSE IF is_dark_shade
        THEN hex(clamped(blend(blend(background, color, 150, 100), WHITE,
                               spread + luminosity_delta, 100)))
        ELSE hex(lighten(color, luminosity_delta))

\* generate(): the assignments to the colors dict, in order.
Assignments(self) ==
    LET c == Resolve(self)
        named == COLORS(c)
        range == luminosity_range(self.luminosity_spread)
        shaded ==
            [i \in 1..(Len(named) * Len(range)) |->
                LET nc == named[((i - 1) \div Len(range)) + 1]
                    sh == range[((i - 1) % Len(range)) + 1]
                IN  <<nc[1] \o sh[1],
                      Shade(nc[1], nc[2], sh[2], self.dark, c.background,
                            self.luminosity_spread)>>]
        text ==
            IF c.foreground.ansi = None
            THEN <<<<"text", "auto 87%">>, <<"text-muted", "auto 60%">>,
                   <<"text-disabled", "auto 38%">>>>
            ELSE <<<<"text", "ansi_default">>, <<"text-muted", "ansi_default">>,
                   <<"text-disabled", "ansi_default">>>>
    IN  shaded \o text \o
        <<<<"highlight-cursor", hex(c.accent)>>,
          <<"highlight-cursor-blurred", hex(with_alpha(c.accent, 30))>>,
          <<"border", hex(c.accent)>>,
          <<"border-blurred", hex(c.surface)>>,
          <<"highlight-hover", hex(with_alpha(c.boost, 5))>>,
          <<"surface-active",
            hex(lighten(c.surface, TruncDiv(self.luminosity_spread * 10, 35)))>>>>

\* The dict built by assigning items[lo..hi] in order: of two assignments
\* to one key the later one stays.
RECURSIVE DictOf(_, _, _)
DictOf(items, lo, hi) ==
    IF lo > hi THEN <<>>
    ELSE IF lo = hi THEN items[lo][1] :> items[lo][2]
    ELSE LET mid == (lo + hi) \div 2
         IN  DictOf(items, mid + 1, hi) @@ DictOf(items, lo, mid)

Dict(items) == DictOf(items, 1, Len(items))

\* ColorSystem.generate
GenerateOf(self) == Dict(Assignments(self))

KeyError == [type |-> "KeyError"]

\* The loop of make_shades over the names: one labeled block per name,
\* colored by the generated entry of that name (the lookup colors[name]
\* raises KeyError for a name that is no key).
Blocks(generated, names) ==
    IF \E i \in 1..Len(names) : names[i] \notin DOMAIN generated THEN <<KeyError>>
    ELSE [i \in 1..Len(names) |->
             [type |-> "Padding", name |-> names[i], text |-> "$" \o names[i],
              color |-> generated[names[i]]]]

\* make_shades(system) of show_design
make_shades(self) == Blocks(GenerateOf(self), shades)

(***************************************************************************)
(* SpecDesign: a ColorSystem is constructed, then generated and shown.     *)
(***************************************************************************)
Optional(S) == {None} \cup S

InitDesign ==
    /\ \E primary \in {"#004578", "#ffa62b", "ansi_red"},
          secondary \in Optional({"#ffa62b", "ansi_blue"}),
          warning \in Optional({"#ffa62b"}),
          error \in Optional({"#ba3c5b"}),
          success \in Optional({"#4ebf71"}),
          accent \in Optional({"#0178d4"}),
          foreground \in Optional({"#e0e0e0", "ansi_default"}),
          background \in Optional({"#121212", "ansi_default"}),
          surface \in Optional({"#1e1e1e"}),
          panel \in Optional({"#24292f"}),
          boost \in Optional({"#ffffff14"}),
          dark \in BOOLEAN :
        /\ Cardinality({i \in 1..10 :
               <<secondary, warning, error, success, accent, foreground,
                 background, surface, panel, boost>>[i] # None}) <= MaxGiven
        /\ system = ColorSystem(primary, secondary, warning, error, success, accent,
                             foreground, background, surface, panel, boost,
                             dark, 150)
    /\ colors = <<>>
    /\ previous = <<>>
    /\ shown = <<>>
    /\ IdleStyle /\ IdleVisual /\ IdleDom

\* system.generate()
Generate ==
    /\ previous' = colors
    /\ colors' = GenerateOf(system)
    /\ UNCHANGED <<system, shown, styleVars, visualVars, domVars>>

\* show_design(light, dark), rendered: the two systems are the state's
\* system in its light and in its dark mode.
ShowDesign ==
    /\ shown' = <<make_shades([system EXCEPT !.dark = FALSE]),
                  make_shades([system EXCEPT !.dark = TRUE])>>
    /\ UNCHANGED <<system, colors, previous, styleVars, visualVars, domVars>>

NextDesign == Generate \/ ShowDesign

SpecDesign == InitDesign /\ [][NextDesign]_vars

(***************************************************************************)
(* Claims about ColorSystem                                                *)
(***************************************************************************)
Generated == DOMAIN colors # {}

ShadeSuffixes ==
    <<"-darken-3", "-darken-2", "-darken-1", "", "-lighten-1", "-lighten-2",
      "-lighten-3">>

ThirteenNames ==
    {"primary", "secondary", "primary-background", "secondary-background",
     "background", "foreground", "panel", "boost", "surface", "warning",
     "error", "success", "accent"}

ShadeKeys == {name \o ShadeSuffixes[i] : name \in ThirteenNames, i \in 1..7}

DerivedTokens ==
    {"text", "text-muted", "text-disabled", "highlight-cursor",
     "highlight-cursor-blurred", "border", "border-blurred", "highlight-hover",
     "surface-active"}

Documented(s) ==
    LET given(x, fallback) == IF x = Nothing THEN fallback ELSE x
        secondary == given(s.secondary, s.primary)
        background ==
            given(s.background,
                  IF s.dark THEN Color(30, 30, 30, 100) ELSE Color(239, 239, 239, 100))
        surface ==
            given(s.surface,
                  IF s.dark THEN Color(39, 39, 39, 100) ELSE Color(245, 245, 245, 100))
        boost == given(s.boost, with_alpha(get_contrast_text(background, 100), 4))
        blended == blend(surface, s.primary, 100, 100)
    IN  [primary |-> s.primary,
         secondary |-> secondary,
         warning |-> given(s.warning, s.primary),
         accent |-> given(s.accent, s.primary),
         error |-> given(s.error, secondary),
         success |-> given(s.success, secondary),
         background |-> background,
         surface |-> surface,
         foreground |-> given(s.foreground, inverse(background)),
         boost |-> boost,
         panel |-> IF s.panel # Nothing THEN s.panel
                   ELSE IF s.dark THEN ColorAdd(blended, boost)
                   ELSE blended]

\* C4: the unshaded entry of every seed color is the given color, or, when
\* the seed is absent, the color of the documented fallback: secondary,
\* warning, accent -> primary; error, success -> the resolved secondary;
\* background, surface -> the defaults of the mode; foreground ->
\* background.inverse; boost -> background.get_contrast_text(1.0) at alpha
\* 0.04; panel -> surface.blend(primary, 0.1), with boost on top only when
\* dark; a given panel is left as it is.
C4_FallbackChain ==
    Generated =>
        \A name \in DOMAIN Documented(system) :
            colors[name] = hex(Documented(system)[name])

\* A generated dark system with a secondary but no error and no panel, in
\* which the error entry is not the primary and boost shows in the panel.
C4_Witness ==
    /\ Generated
    /\ system.dark
    /\ system.secondary # Nothing
    /\ system.error = Nothing
    /\ system.panel = Nothing
    /\ colors["error"] = colors["secondary"]
    /\ colors["error"] # colors["primary"]
    /\ colors["panel"] # hex(blend(Resolve(system).surface, system.primary, 100, 100))

\* C5: each shade follows one rule: a fixed-palette color gives its own hex
\* for all seven shades, in either mode and for every name; otherwise, in a
\* dark system, primary-background and secondary-background give
\* background.blend(color, 0.15) blended toward white by spread + n *
\* (spread / 2) and clamped; otherwise the shade is color.lighten(n *
\* (spread / 2)).
C5_ShadeRule ==
    Generated =>
        LET named == COLORS(Resolve(system))
            spread == system.luminosity_spread
            background == Resolve(system).background
        IN  \A k \in 1..Len(named), i \in 1..7 :
                LET name == named[k][1]
                    color == named[k][2]
                    n == i - 4
                    delta == TruncDiv(n * spread, 2)
                IN  colors[name \o ShadeSuffixes[i]] =
                        IF color.ansi # None THEN hex(color)
                        ELSE IF system.dark /\ name \in {"primary-background",
                                                         "secondary-background"}
                        THEN hex(clamped(blend(blend(background, color, 150, 100),
                                               WHITE, spread + delta, 100)))
                        ELSE hex(lighten(color, delta))

\* A generated dark system whose primary can be blended: its
\* primary-background-darken-1 is not the plain darkening of the primary.
C5_Witness ==
    /\ Generated
    /\ system.dark
    /\ system.primary.ansi = None
    /\ colors["primary-background-darken-1"] # colors["primary-darken-1"]
    /\ colors["primary-background-darken-1"] # hex(lighten(system.primary, -75))

\* C6: for the light and for the dark system, show_design renders one block
\* per shade key of the system's generated mapping (all 13 x 7 of them), and
\* no lookup fails.
C6_ShowDesignRendersEveryShade ==
    shown # <<>> =>
        \A k \in 1..2 :
            /\ shown[k] # <<KeyError>>
            /\ {shown[k][i].name : i \in 1..Len(shown[k])} =
                   DOMAIN GenerateOf([system EXCEPT !.dark = (k = 2)]) \ DerivedTokens

(***************************************************************************)
(* textual.visual.textualize                                               *)
(***************************************************************************)
Visuals == {[type |-> "Visual", id |-> i] : i \in 1..3}

\* What a conversion method may hand back that is no Visual.
NonVisuals == {[type |-> "NoneType"], [type |-> "str"], [type |-> "Style"]}

\* An object, as far as textualize can tell objects apart: whether it has a
\* textualize attribute ("absent", "None", "value" for one that cannot be
\* called, "method"), and for a method the arguments it requires besides
\* self and what a call does.
Objects ==
    {[attr |-> a] : a \in {"absent", "None", "value"}}
    \cup {[attr |-> "method", required |-> n, does |-> "return", value |-> v] :
             n \in 0..1, v \in Visuals \cup NonVisuals}
    \cup {[attr |-> "method", required |-> n, does |-> "raise"] : n \in 0..1}

Return(v) == [kind |-> "return", value |-> v]

Raise(error) == [kind |-> "raise", error |-> error]

\* textualize(obj)
textualize(o) ==
    IF o.attr \in {"absent", "None"} THEN Return(Nothing)
    ELSE IF o.attr = "value" THEN Raise("TypeError")
    ELSE IF o.required > 0 THEN Raise("TypeError")
    ELSE IF o.does = "raise" THEN Raise("Exception")
    ELSE IF o.value.type # "Visual" THEN Return(Nothing)
    ELSE Return(o.value)

(***************************************************************************)
(* SpecVisual: content objects are handed to textualize one after another; *)
(* the caller keeps the visuals it gets.                                   *)
(***************************************************************************)
NoObject == [attr |-> "none"]

InitVisual ==
    /\ obj = NoObject
    /\ outcome = [kind |-> "none"]
    /\ admitted = {}
    /\ IdleStyle /\ IdleDesign /\ IdleDom

Textualize ==
    /\ \E o \in Objects :
          /\ obj' = o
          /\ outcome' = textualize(o)
          /\ admitted' = IF textualize(o).kind = "return" /\ textualize(o).value # Nothing
                         THEN admitted \cup {textualize(o).value}
                         ELSE admitted
    /\ UNCHANGED <<styleVars, designVars, domVars>>

NextVisual == Textualize

SpecVisual == InitVisual /\ [][NextVisual]_vars

\* C8: textualize never fails: it returns the Visual the object's
\* conversion produces when the object has the conversion and it yields a
\* Visual, and None in every other case.
C8_TextualizeNeverFails ==
    obj # NoObject =>
        /\ outcome.kind = "return"
        /\ outcome.value =
               IF obj.attr = "method" /\ obj.does = "return" /\ obj.value \in Visuals
               THEN obj.value
               ELSE Nothing

(***************************************************************************)
(* The DOM: nodes with an id and classes, and DOMNode.get_child            *)
(***************************************************************************)
\* The nodes of the tests' fixture, named by their ids.
Nodes == {"parent", "child1", "child2", "grandchild1"}

ClassNames == {"foo", "bar"}

\* The selectors the model queries with: "#" and an id, "." and a class.
Selectors ==
    {[prefix |-> "#", name |-> n] : n \in Nodes \cup {"doesnt-exist"}}
    \cup {[prefix |-> ".", name |-> c] : c \in ClassNames}

\* Whether a node matches a selector.
Matches(node, selector, cls) ==
    IF selector.prefix = "#" THEN node = selector.name
    ELSE selector.name \in cls[node]

RECURSIVE Descendants(_, _)
Descendants(node, kids) ==
    IF kids[node] = <<>> THEN <<>>
    ELSE LET RECURSIVE Walk(_)
             Walk(i) ==
                 IF i > Len(kids[node]) THEN <<>>
                 ELSE <<kids[node][i]>> \o Descendants(kids[node][i], kids) \o Walk(i + 1)
         IN  Walk(1)

FirstMatch(candidates, selector, cls) ==
    LET at == {i \in 1..Len(candidates) : Matches(candidates[i], selector, cls)}
    IN  IF at = {} THEN Raise("NoMatchingNodesError")
        ELSE Return(candidates[CHOOSE i \in at : \A j \in at : i <= j])

\* A variant of get_child that searches all descendants.
MutGetChildSearchesDescendants(node, selector, kids, cls) ==
    FirstMatch(Descendants(node, kids), selector, cls)

\* node.get_child(selector): the first immediate child that matches.
get_child(node, selector, kids, cls) ==
    FirstMatch(kids[node], selector, cls)

Parented(kids) == UNION {{kids[n][i] : i \in 1..Len(kids[n])} : n \in Nodes}

RECURSIVE Ancestors(_, _)
Ancestors(node, kids) ==
    LET up == {n \in Nodes : \E i \in 1..Len(kids[n]) : kids[n][i] = node}
    IN  up \cup UNION {Ancestors(n, kids) : n \in up}

(***************************************************************************)
(* SpecDom: a tree is built under "parent", classes are added and          *)
(* children are looked up.                                                 *)
(***************************************************************************)
NoQuery == [node |-> "none"]

InitDom ==
    /\ children = [n \in Nodes |-> <<>>]
    /\ classes = [n \in Nodes |-> {}]
    /\ query = NoQuery
    /\ IdleStyle /\ IdleDesign /\ IdleVisual

\* node.add_child(child)
AddChild ==
    /\ \E node \in Nodes, child \in Nodes \ {"parent"} :
          /\ child # node
          /\ child \notin Parented(children)
          /\ child \notin Ancestors(node, children)
          /\ children' = [children EXCEPT ![node] = Append(@, child)]
    /\ UNCHANGED <<classes, query, styleVars, designVars, visualVars>>

\* node.add_class(name)
AddClass ==
    /\ \E node \in Nodes, name \in ClassNames :
          /\ name \notin classes[node]
          /\ Cardinality({<<n, c>> \in Nodes \X ClassNames : c \in classes[n]}) < MaxClasses
          /\ classes' = [classes EXCEPT ![node] = @ \cup {name}]
    /\ UNCHANGED <<children, query, styleVars, designVars, visualVars>>

\* node.get_child(selector)
GetChild ==
    /\ \E node \in Nodes, selector \in Selectors :
          query' = [node |-> node, selector |-> selector,
                    outcome |-> get_child(node, selector, children, classes)]
    /\ UNCHANGED <<children, classes, styleVars, designVars, visualVars>>

NextDom == AddChild \/ AddClass \/ GetChild

SpecDom == InitDom /\ [][NextDom]_vars

\* What C9 says of a get_child call q on the tree (kids, cls).
ChildLookup(q, kids, cls) ==
    LET own == kids[q.node]
        sel == q.selector
        hit(n) == \/ sel.prefix = "#" /\ n = sel.name
                  \/ sel.prefix = "." /\ sel.name \in cls[n]
        at == {i \in 1..Len(own) : hit(own[i])}
    IN  IF at = {}
        THEN q.outcome = Raise("NoMatchingNodesError")
        ELSE /\ q.outcome.kind = "return"
             /\ \E i \in at : /\ q.outcome.value = own[i]
                              /\ \A j \in at : i <= j

\* C9: get_child(selector) returns the first immediate child that matches
\* the selector by id or class, and raises NoMatchingNodesError when no
\* immediate child matches, also when a deeper descendant does.
C9_GetChildImmediate ==
    [][query' # query => ChildLookup(query', children, classes)]_vars

\* The fixture's tree, asked from parent for its grandchild: no match.
C9_Witness ==
    /\ children["parent"] = <<"child1", "child2">>
    /\ children["child1"] = <<"grandchild1">>
    /\ classes["child1"] = {"foo"}
    /\ classes["child2"] = {"bar"}
    /\ query = [node |-> "parent", selector |-> [prefix |-> "#", name |-> "grandchild1"],
                outcome |-> Raise("NoMatchingNodesError")]

====
